---- MODULE Spec2Model ----
(***************************************************************************)
(* Relation inference and ontology aggregation of book_connections:        *)
(*   src/relation_extractor.py  RelationExtractor                          *)
(*   src/entity_extractor.py    EntityExtractor, the normalizers           *)
(*   src/ontology_builder.py    OntologyBuilder                            *)
(*                                                                         *)
(* A Python str is a sequence of Unicode code points, so that substring    *)
(* search, slicing, lower(), split() and strip() are computed the way the  *)
(* code computes them.  The keyword tables are the tables of the source,   *)
(* code point by code point (the comments give a Latin gloss).             *)
(* A confidence is counted in hundredths: 0.8 is 80, 0.75 is 75, 0.5 is 50.*)
(* A dict is a function (or a record); a dict whose iteration order the    *)
(* code depends on is a sequence of [key, value] entries.                  *)
(***************************************************************************)
EXTENDS Integers, Sequences, FiniteSets, TLC

----------------------------------------------------------------------------
(* Keyword tables, relation_extractor.py:13-39 *)

RESIDENCE_KEYWORDS ==
  <<
    <<1080, 1079>>,  \* iz
    <<1074>>,  \* v
    <<1078, 1080, 1074, 1105, 1090>>,  \* zhivyot
    <<1078, 1080, 1074, 1077, 1090>>,  \* zhivet
    <<1087, 1088, 1086, 1078, 1080, 1074, 1072, 1077, 1090>>,  \* prozhivaet
    <<1088, 1086, 1076, 1086, 1084>>,  \* rodom
    <<1088, 1086, 1076, 1080, 1083, 1089, 1103>>,  \* rodilsya
    <<1088, 1086, 1076, 1080, 1083, 1072, 1089, 1100>>,  \* rodilas
    <<1091, 1088, 1086, 1078, 1077, 1085, 1077, 1094>>,  \* urozhenec
    <<1091, 1088, 1086, 1078, 1077, 1085, 1082, 1072>>,  \* urozhenka
    <<1078, 1080, 1083>>,  \* zhil
    <<1078, 1080, 1083, 1072>>,  \* zhila
    <<1078, 1080, 1083, 1080>>,  \* zhili
    <<1078, 1080, 1074, 1091, 1090>>,  \* zhivut
    <<1085, 1072, 1093, 1086, 1076, 1080, 1090, 1089, 1103>>,  \* nahoditsya
    <<102, 114, 111, 109>>,  \* from
    <<108, 105, 118, 101, 115, 32, 105, 110>>,  \* lives in
    <<98, 111, 114, 110, 32, 105, 110>>,  \* born in
    <<102, 114, 111, 109>>,  \* from
    <<114, 101, 115, 105, 100, 101, 115, 32, 105, 110>>,  \* resides in
    <<110, 97, 116, 105, 118, 101, 32, 111, 102>>  \* native of
  >>

FAMILY_KEYWORDS ==
  <<
    <<1073, 1088, 1072, 1090>>,  \* brat
    <<1089, 1077, 1089, 1090, 1088, 1072>>,  \* sestra
    <<1084, 1072, 1090, 1100>>,  \* mat
    <<1086, 1090, 1077, 1094>>,  \* otec
    <<1089, 1099, 1085>>,  \* syn
    <<1076, 1086, 1095, 1100>>,  \* doch
    <<1088, 1086, 1076, 1089, 1090, 1074, 1077, 1085, 1085, 1080, 1082, 1080>>,  \* rodstvenniki
    <<1088, 1086, 1076, 1089, 1090, 1074, 1077, 1085, 1085, 1080, 1082>>,  \* rodstvennik
    <<1089, 1077, 1084, 1100, 1103>>,  \* semya
    <<1088, 1086, 1076, 1080, 1090, 1077, 1083, 1080>>,  \* roditeli
    <<1076, 1077, 1076>>,  \* ded
    <<1073, 1072, 1073, 1091, 1096, 1082, 1072>>,  \* babushka
    <<1074, 1085, 1091, 1082>>,  \* vnuk
    <<1074, 1085, 1091, 1095, 1082, 1072>>,  \* vnuchka
    <<1076, 1103, 1076, 1103>>,  \* dyadya
    <<1090, 1105, 1090, 1103>>,  \* tyotya
    <<98, 114, 111, 116, 104, 101, 114>>,  \* brother
    <<115, 105, 115, 116, 101, 114>>,  \* sister
    <<109, 111, 116, 104, 101, 114>>,  \* mother
    <<102, 97, 116, 104, 101, 114>>,  \* father
    <<115, 111, 110>>,  \* son
    <<100, 97, 117, 103, 104, 116, 101, 114>>,  \* daughter
    <<102, 97, 109, 105, 108, 121>>,  \* family
    <<114, 101, 108, 97, 116, 105, 118, 101>>,  \* relative
    <<112, 97, 114, 101, 110, 116>>,  \* parent
    <<103, 114, 97, 110, 100, 102, 97, 116, 104, 101, 114>>,  \* grandfather
    <<103, 114, 97, 110, 100, 109, 111, 116, 104, 101, 114>>,  \* grandmother
    <<117, 110, 99, 108, 101>>,  \* uncle
    <<97, 117, 110, 116>>  \* aunt
  >>

FRIENDSHIP_KEYWORDS ==
  <<
    <<1076, 1088, 1091, 1079, 1100, 1103>>,  \* druzya
    <<1076, 1088, 1091, 1075>>,  \* drug
    <<1087, 1086, 1076, 1088, 1091, 1075, 1072>>,  \* podruga
    <<1079, 1085, 1072, 1082, 1086, 1084>>,  \* znakom
    <<1074, 1089, 1090, 1088, 1077, 1090, 1080, 1083>>,  \* vstretil
    <<1074, 1089, 1090, 1088, 1077, 1090, 1080, 1083, 1072>>,  \* vstretila
    <<1079, 1085, 1072, 1083>>,  \* znal
    <<1079, 1085, 1072, 1083, 1072>>,  \* znala
    <<102, 114, 105, 101, 110, 100, 115>>,  \* friends
    <<102, 114, 105, 101, 110, 100>>,  \* friend
    <<109, 101, 116>>,  \* met
    <<107, 110, 111, 119>>,  \* know
    <<107, 110, 101, 119>>,  \* knew
    <<97, 99, 113, 117, 97, 105, 110, 116, 97, 110, 99, 101>>  \* acquaintance
  >>

WORK_KEYWORDS ==
  <<
    <<1082, 1086, 1083, 1083, 1077, 1075, 1080>>,  \* kollegi
    <<1082, 1086, 1083, 1083, 1077, 1075, 1072>>,  \* kollega
    <<1088, 1072, 1073, 1086, 1090, 1072, 1083>>,  \* rabotal
    <<1088, 1072, 1073, 1086, 1090, 1072, 1083, 1072>>,  \* rabotala
    <<1085, 1072, 1095, 1072, 1083, 1100, 1085, 1080, 1082>>,  \* nachalnik
    <<1087, 1086, 1076, 1095, 1080, 1085, 1105, 1085, 1085, 1099, 1081>>,  \* podchinyonnyj
    <<99, 111, 108, 108, 101, 97, 103, 117, 101, 115>>,  \* colleagues
    <<99, 111, 108, 108, 101, 97, 103, 117, 101>>,  \* colleague
    <<119, 111, 114, 107, 101, 100>>,  \* worked
    <<98, 111, 115, 115>>,  \* boss
    <<101, 109, 112, 108, 111, 121, 101, 101>>,  \* employee
    <<109, 97, 110, 97, 103, 101, 114>>  \* manager
  >>

LOVE_KEYWORDS ==
  <<
    <<1083, 1102, 1073, 1086, 1074, 1100>>,  \* lyubov
    <<1083, 1102, 1073, 1080, 1090>>,  \* lyubit
    <<1083, 1102, 1073, 1080, 1083, 1072>>,  \* lyubila
    <<1078, 1077, 1085, 1072, 1090>>,  \* zhenat
    <<1079, 1072, 1084, 1091, 1078, 1077, 1084>>,  \* zamuzhem
    <<1078, 1077, 1085, 1072>>,  \* zhena
    <<1084, 1091, 1078>>,  \* muzh
    <<1074, 1083, 1102, 1073, 1083, 1105, 1085>>,  \* vlyublyon
    <<108, 111, 118, 101>>,  \* love
    <<108, 111, 118, 101, 115>>,  \* loves
    <<109, 97, 114, 114, 105, 101, 100>>,  \* married
    <<119, 105, 102, 101>>,  \* wife
    <<104, 117, 115, 98, 97, 110, 100>>,  \* husband
    <<105, 110, 32, 108, 111, 118, 101>>  \* in love
  >>

(* Case endings and trailing vowels of the declined-form approximation,
   relation_extractor.py:164-166 *)
CASE_ENDINGS ==
  <<
    <<1072>>,  \* a
    <<1077>>,  \* e
    <<1080>>,  \* i
    <<1091>>,  \* u
    <<1086, 1084>>,  \* om
    <<1086, 1081>>,  \* oj
    <<1077>>,  \* e
    <<1072, 1084, 1080>>  \* ami
  >>
TRAILING_VOWELS == {1072, 1077, 1080, 1086, 1091, 1099, 1101, 1102, 1103}

----------------------------------------------------------------------------
(* Python built-ins used by the code *)

Max(a, b) == IF a >= b THEN a ELSE b

Min(a, b) == IF a <= b THEN a ELSE b

Abs(a) == IF a >= 0 THEN a ELSE 0 - a

MinOfSet(S) == CHOOSE x \in S : \A y \in S : x <= y

\* str.isspace() of one character
IsSpace(c) == c \in {9, 10, 11, 12, 13, 28, 29, 30, 31, 32, 133, 160}

\* str.lower() of one character: Latin A-Z, Cyrillic U+0410-U+042F and
\* U+0400-U+040F
Lower(c) ==
  IF (c >= 65 /\ c <= 90) \/ (c >= 1040 /\ c <= 1071) THEN c + 32
  ELSE IF c >= 1024 /\ c <= 1039 THEN c + 80
  ELSE c

\* str.lower()
LowerStr(s) == [i \in 1..Len(s) |-> Lower(s[i])]

\* s[a:b] for a, b >= 0 (0-based, end exclusive, clipped to the length)
Slice(s, a, b) ==
  LET lo == Min(a, Len(s))
      hi == Min(b, Len(s))
  IN IF lo >= hi THEN << >> ELSE SubSeq(s, lo + 1, hi)

\* the 0-based offsets at which sub occurs in s
Occurrences(s, sub) ==
  {i \in 0..(Len(s) - Len(sub)) : \A j \in 1..Len(sub) : s[i + j] = sub[j]}

\* sub in s
Contains(s, sub) ==
  \E i \in 0..(Len(s) - Len(sub)) : \A j \in 1..Len(sub) : s[i + j] = sub[j]

\* s.find(sub): the first offset, -1 when there is none
Find(s, sub) ==
  IF Occurrences(s, sub) = {} THEN -1 ELSE MinOfSet(Occurrences(s, sub))

RECURSIVE SortedSeq(_)
\* sorted(set(...)) of a set of integers
SortedSeq(S) ==
  IF S = {} THEN << >>
  ELSE LET m == MinOfSet(S) IN << m >> \o SortedSeq(S \ {m})

\* the elements of a sequence, as a set
Range(q) == {q[i] : i \in 1..Len(q)}

\* q[:n]
Take(q, n) == SubSeq(q, 1, Min(n, Len(q)))

RECURSIVE SplitFrom(_, _, _, _)
SplitFrom(s, i, cur, acc) ==
  IF i > Len(s) THEN (IF cur = << >> THEN acc ELSE Append(acc, cur))
  ELSE IF IsSpace(s[i])
       THEN SplitFrom(s, i + 1, << >>, IF cur = << >> THEN acc ELSE Append(acc, cur))
       ELSE SplitFrom(s, i + 1, Append(cur, s[i]), acc)

\* str.split(): the maximal runs of non-whitespace characters
Split(s) == SplitFrom(s, 1, << >>, << >>)

RECURSIVE RStrip(_, _)
\* str.rstrip(chars), chars given by a predicate set
RStrip(s, chars) ==
  IF s # << >> /\ s[Len(s)] \in chars THEN RStrip(SubSeq(s, 1, Len(s) - 1), chars)
  ELSE s

RECURSIVE LStripSpace(_)
LStripSpace(s) ==
  IF s # << >> /\ IsSpace(s[1]) THEN LStripSpace(Tail(s)) ELSE s

RECURSIVE RStripSpace(_)
RStripSpace(s) ==
  IF s # << >> /\ IsSpace(s[Len(s)]) THEN RStripSpace(SubSeq(s, 1, Len(s) - 1))
  ELSE s

\* str.strip()
Strip(s) == LStripSpace(RStripSpace(s))

\* name.split()[0] if name else ''
FirstName(name) ==
  IF name = << >> THEN << >> ELSE Split(name)[1]

\* self._find_all_positions(text, substring), for a non-empty substring
FindAllPositions(text, substring) ==
  SortedSeq(Occurrences(LowerStr(text), LowerStr(substring)))

\* d[k] = v on a dict in insertion order: a key already present keeps its
\* place and takes the new value
DictPut(d, k, v) ==
  IF \E i \in 1..Len(d) : d[i].key = k
  THEN [i \in 1..Len(d) |-> IF d[i].key = k THEN [key |-> k, value |-> v] ELSE d[i]]
  ELSE Append(d, [key |-> k, value |-> v])

\* entities.get(kind, [])
EntityList(entities, kind) ==
  IF kind \in DOMAIN entities THEN entities[kind] ELSE << >>

\* relation.get(field, default)
RelGet(relation, field, default) ==
  IF field \in DOMAIN relation THEN relation[field] ELSE default

\* the (source, target, type) key of a relation
Triple(rel) == << rel.source, rel.target, rel.type >>

RECURSIVE FlattenFrom(_, _)
FlattenFrom(ss, i) ==
  IF i > Len(ss) THEN << >> ELSE ss[i] \o FlattenFrom(ss, i + 1)

\* the concatenation of a sequence of lists: what a loop that appends to or
\* extends one list builds, iteration by iteration
Flatten(ss) == FlattenFrom(ss, 1)

----------------------------------------------------------------------------
(* Strategy A: person - location, _extract_person_location_relations *)

\* radius of the context window around a person mention
ContextRadius == 300

\* radius of the search window around the residence keyword
LocWindowRadius == 100

\* length a relation's context is cut to
ContextLimit == 150

\* distance below which a person and a location occurrence are close
LocProximity == 200

\* padding of the text between two close occurrences
ProximityPadding == 100

\* number of occurrences kept per entity in the proximity method
MaxLocPositions == 20

RECURSIVE PutEndings(_, _, _, _)
\* for ending in [...]: loc_text_variants[base + ending] = loc
PutEndings(d, base, loc, i) ==
  IF i > Len(CASE_ENDINGS) THEN d
  ELSE PutEndings(DictPut(d, base \o CASE_ENDINGS[i], loc), base, loc, i + 1)

\* the entries one location adds to loc_text_variants
PutLocVariants(d, loc) ==
  LET loc_normalized == LowerStr(loc.normalized)
      loc_original == LowerStr(loc.text)
      d1 == DictPut(DictPut(d, loc_normalized, loc), loc_original, loc)
      base == RStrip(loc_normalized, TRAILING_VOWELS)
  IN IF base # << >> /\ base # loc_normalized
     THEN PutEndings(d1, base, loc, 1)
     ELSE d1

RECURSIVE LocTextVariantsFrom(_, _, _)
LocTextVariantsFrom(d, locations, i) ==
  IF i > Len(locations) THEN d
  ELSE LocTextVariantsFrom(PutLocVariants(d, locations[i]), locations, i + 1)

\* loc_text_variants: every spelling a location is looked for under
LocTextVariants(locations) == LocTextVariantsFrom(<< >>, locations, 1)

\* the test of one location variant against the search window
VariantInWindow(loc_variant, search_window_lower) ==
  \/ Contains(search_window_lower, loc_variant)
  \/ \E i \in 1..Len(Split(loc_variant)) :
        /\ Len(Split(loc_variant)[i]) > 3
        /\ Contains(search_window_lower, Split(loc_variant)[i])

\* KeywordRelations with the surface form of the location as the target
KeywordRelations_SurfaceTarget(person, context, context_lower, keyword, loc_text_variants) ==
  LET keyword_pos == Find(context_lower, keyword)
      search_window == Slice(context, Max(0, keyword_pos - LocWindowRadius),
                             Min(Len(context), keyword_pos + LocWindowRadius))
      search_window_lower == LowerStr(search_window)
      hits == {i \in 1..Len(loc_text_variants) :
                 VariantInWindow(loc_text_variants[i].key, search_window_lower)}
  IN IF ~ Contains(context_lower, keyword) THEN << >>
     ELSE IF hits = {} THEN << >>
     ELSE << [source |-> person.normalized,
              target |-> loc_text_variants[MinOfSet(hits)].value.text,
              type |-> "RESIDENCE",
              confidence |-> 80,
              context |-> Take(Strip(search_window), ContextLimit),
              source_type |-> "PERSON",
              target_type |-> "LOC"] >>

\* the relations one residence keyword adds for one person mention: the
\* first variant of loc_text_variants found in the search window, if any
KeywordRelations(person, context, context_lower, keyword, loc_text_variants) ==
  LET keyword_pos == Find(context_lower, keyword)
      search_window == Slice(context, Max(0, keyword_pos - LocWindowRadius),
                             Min(Len(context), keyword_pos + LocWindowRadius))
      search_window_lower == LowerStr(search_window)
      hits == {i \in 1..Len(loc_text_variants) :
                 VariantInWindow(loc_text_variants[i].key, search_window_lower)}
  IN IF ~ Contains(context_lower, keyword) THEN << >>
     ELSE IF hits = {} THEN << >>
     ELSE << [source |-> person.normalized,
              target |-> loc_text_variants[MinOfSet(hits)].value.normalized,
              type |-> "RESIDENCE",
              confidence |-> 80,
              context |-> Take(Strip(search_window), ContextLimit),
              source_type |-> "PERSON",
              target_type |-> "LOC"] >>

\* Method 1 for one person mention: every residence keyword in turn
PersonPatternRelations(text, person, loc_text_variants) ==
  LET context_start == Max(0, person.start - ContextRadius)
      context_end == Min(Len(text), person.end + ContextRadius)
      context == Slice(text, context_start, context_end)
      context_lower == LowerStr(context)
  IN Flatten([k \in 1..Len(RESIDENCE_KEYWORDS) |->
        KeywordRelations(person, context, context_lower, RESIDENCE_KEYWORDS[k],
                         loc_text_variants)])

\* Method 1: keyword patterns around every person mention
PatternRelations(text, persons, locations) ==
  LET loc_text_variants == LocTextVariants(locations)
  IN Flatten([p \in 1..Len(persons) |->
        PersonPatternRelations(text, persons[p], loc_text_variants)])

\* sorted(set(positions of every non-empty variant))[:limit]
VariantPositions(text, variants, limit) ==
  Take(SortedSeq(UNION {Range(FindAllPositions(text, variants[i])) :
                          i \in {j \in 1..Len(variants) : variants[j] # << >>}}),
       limit)

\* the text between two occurrences, padded
BetweenContext(text, p_pos, l_pos) ==
  Slice(text, Max(0, Min(p_pos, l_pos) - ProximityPadding),
        Min(Len(text), Max(p_pos, l_pos) + ProximityPadding))

\* a person occurrence and a location occurrence are close and a residence
\* keyword stands in the text between them
ProximityHit(text, p_pos, l_pos) ==
  /\ Abs(p_pos - l_pos) < LocProximity
  /\ LET context_lower == LowerStr(BetweenContext(text, p_pos, l_pos))
     IN \E k \in 1..Len(RESIDENCE_KEYWORDS) :
           Contains(context_lower, RESIDENCE_KEYWORDS[k])

\* the relation one person occurrence adds for one location: the first
\* location occurrence that is a hit ends the inner loop
OccurrenceRelations(text, person, loc, p_pos, loc_positions) ==
  LET hits == {j \in 1..Len(loc_positions) : ProximityHit(text, p_pos, loc_positions[j])}
  IN IF hits = {} THEN << >>
     ELSE << [source |-> person.normalized,
              target |-> loc.normalized,
              type |-> "RESIDENCE",
              confidence |-> 75,
              context |-> Take(Strip(BetweenContext(text, p_pos, loc_positions[MinOfSet(hits)])),
                               ContextLimit),
              source_type |-> "PERSON",
              target_type |-> "LOC"] >>

\* Method 2 for one person mention: skipped when the name has no first token
PersonProximityRelations(text, person, locations) ==
  LET person_name == person.normalized
      person_first_name == FirstName(person_name)
      person_positions ==
        VariantPositions(text, << person_first_name, person_name >>, MaxLocPositions)
  IN IF person_first_name = << >> THEN << >>
     ELSE Flatten([l \in 1..Len(locations) |->
            LET loc_positions ==
                  VariantPositions(text, << locations[l].normalized, locations[l].text >>,
                                   MaxLocPositions)
            IN Flatten([i \in 1..Len(person_positions) |->
                  OccurrenceRelations(text, person, locations[l],
                                      person_positions[i], loc_positions)])])

\* Method 2: close mentions of a person and a location
ProximityRelations(text, persons, locations) ==
  Flatten([p \in 1..Len(persons) |-> PersonProximityRelations(text, persons[p], locations)])

RECURSIVE UniqueFrom(_, _, _)
UniqueFrom(rels, i, acc) ==
  IF i > Len(rels) THEN acc
  ELSE UniqueFrom(rels, i + 1,
         IF \E j \in 1..Len(acc) : Triple(acc[j]) = Triple(rels[i])
         THEN acc ELSE Append(acc, rels[i]))

\* the first relation of every (source, target, type) key, in order
UniqueByTriple(rels) == UniqueFrom(rels, 1, << >>)

\* ExtractPersonLocationRelations with the proximity method run first
ExtractPersonLocationRelations_ProximityFirst(text, entities) ==
  LET persons == EntityList(entities, "PERSON")
      locations == EntityList(entities, "LOC")
  IN IF persons = << >> \/ locations = << >> THEN << >>
     ELSE UniqueByTriple(ProximityRelations(text, persons, locations)
                         \o PatternRelations(text, persons, locations))

\* _extract_person_location_relations(text, entities)
ExtractPersonLocationRelations(text, entities) ==
  LET persons == EntityList(entities, "PERSON")
      locations == EntityList(entities, "LOC")
  IN IF persons = << >> \/ locations = << >> THEN << >>
     ELSE UniqueByTriple(PatternRelations(text, persons, locations)
                         \o ProximityRelations(text, persons, locations))

----------------------------------------------------------------------------
(* Strategy B: person - person, _extract_person_person_relations *)

\* radius of the context window around an occurrence of the first person
PersonContextRadius == 300

\* radius of the search window around the relation keyword
PersonWindowRadius == 150

\* distance below which two person occurrences are close
PersonProximity == 600

\* number of occurrences of the first person that are examined
MaxPersonPositions == 30

\* number of occurrences of the second person that are examined
MaxSecondPositions == 20

\* relation_types_keywords: the categories in the order they are tried
relation_types_keywords ==
  << [keywords |-> FAMILY_KEYWORDS, type |-> "FAMILY"],
     [keywords |-> FRIENDSHIP_KEYWORDS, type |-> "FRIENDSHIP"],
     [keywords |-> WORK_KEYWORDS, type |-> "WORK"],
     [keywords |-> LOVE_KEYWORDS, type |-> "LOVE"] >>

\* p2_positions: the occurrences of every non-empty variant, one variant
\* after the other (neither sorted nor deduplicated)
SecondPositions(text, person2) ==
  LET variants == << FirstName(person2.normalized), person2.normalized, person2.text >>
  IN Flatten([i \in 1..Len(variants) |->
        IF variants[i] = << >> THEN << >> ELSE FindAllPositions(text, variants[i])])

\* SecondPersonHit that accepts every other person with a first name
SecondPersonHit_AnyOtherPerson(text, person1, person2, p1_pos, search_window_lower) ==
  /\ person1.normalized # person2.normalized
  /\ FirstName(person2.normalized) # << >>

\* person2 is accepted as the second person of a keyword hit of person1
SecondPersonHit(text, person1, person2, p1_pos, search_window_lower) ==
  LET p2_name == person2.normalized
      p2_first == FirstName(p2_name)
      p2_variants == << LowerStr(p2_name), LowerStr(person2.text), LowerStr(p2_first) >>
      p2_positions == Take(SecondPositions(text, person2), MaxSecondPositions)
  IN /\ person1.normalized # person2.normalized
     /\ p2_first # << >>
     /\ \E i \in 1..Len(p2_variants) :
           p2_variants[i] # << >> /\ Contains(search_window_lower, p2_variants[i])
     /\ \E j \in 1..Len(p2_positions) : Abs(p1_pos - p2_positions[j]) < PersonProximity

\* the relation one keyword adds for one occurrence of person1: the first
\* person of the list that is accepted ends the loop over the persons
PersonKeywordRelations(text, persons, person1, p1_pos, context, context_lower, keyword, relation_type) ==
  LET keyword_pos == Find(context_lower, keyword)
      search_window == Slice(context, Max(0, keyword_pos - PersonWindowRadius),
                             Min(Len(context), keyword_pos + PersonWindowRadius))
      search_window_lower == LowerStr(search_window)
      hits == {q \in 1..Len(persons) :
                 SecondPersonHit(text, person1, persons[q], p1_pos, search_window_lower)}
  IN IF ~ Contains(context_lower, keyword) THEN << >>
     ELSE IF hits = {} THEN << >>
     ELSE << [source |-> person1.normalized,
              target |-> persons[MinOfSet(hits)].normalized,
              type |-> relation_type,
              confidence |-> 75,
              context |-> Take(Strip(search_window), ContextLimit),
              source_type |-> "PERSON",
              target_type |-> "PERSON"] >>

\* one occurrence of person1: every category, every keyword of it
PersonOccurrenceRelations(text, persons, person1, p1_pos) ==
  LET p1_first == FirstName(person1.normalized)
      context_start == Max(0, p1_pos - PersonContextRadius)
      context_end == Min(Len(text), p1_pos + Len(p1_first) + PersonContextRadius)
      context == Slice(text, context_start, context_end)
      context_lower == LowerStr(context)
  IN Flatten([c \in 1..Len(relation_types_keywords) |->
       Flatten([k \in 1..Len(relation_types_keywords[c].keywords) |->
          PersonKeywordRelations(text, persons, person1, p1_pos, context, context_lower,
                                 relation_types_keywords[c].keywords[k],
                                 relation_types_keywords[c].type)])])

\* one person1: skipped when the name has no first token
FirstPersonRelations(text, persons, person1) ==
  LET p1_name == person1.normalized
      p1_first == FirstName(p1_name)
      p1_positions ==
        VariantPositions(text, << p1_first, p1_name, person1.text >>, MaxPersonPositions)
  IN IF p1_first = << >> THEN << >>
     ELSE Flatten([i \in 1..Len(p1_positions) |->
            PersonOccurrenceRelations(text, persons, person1, p1_positions[i])])

RECURSIVE UniqueUnorderedFrom(_, _, _)
UniqueUnorderedFrom(rels, i, acc) ==
  IF i > Len(rels) THEN acc
  ELSE UniqueUnorderedFrom(rels, i + 1,
         IF \E j \in 1..Len(acc) :
               \/ Triple(acc[j]) = Triple(rels[i])
               \/ Triple(acc[j]) = << rels[i].target, rels[i].source, rels[i].type >>
         THEN acc ELSE Append(acc, rels[i]))

\* UniqueUnordered that drops nothing
UniqueUnordered_KeepsAll(rels) == rels

\* UniqueUnordered without the test of the mirrored key
UniqueUnordered_KeepsMirror(rels) == UniqueByTriple(rels)

\* the first relation of every key, a relation whose mirrored key was kept
\* before being dropped too
UniqueUnordered(rels) == UniqueUnorderedFrom(rels, 1, << >>)

\* _extract_person_person_relations(text, entities)
ExtractPersonPersonRelations(text, entities) ==
  LET persons == EntityList(entities, "PERSON")
  IN IF Len(persons) < 2 THEN << >>
     ELSE UniqueUnordered(
            Flatten([p \in 1..Len(persons) |-> FirstPersonRelations(text, persons, persons[p])]))

----------------------------------------------------------------------------
(* The synthesizer, _create_bidirectional_relations *)

\* bidirectional_map.get(rel_type); "" stands for None
bidirectional_map(rel_type) ==
  CASE rel_type = "RESIDENCE" -> "HAS_RESIDENT"
    [] rel_type = "FAMILY" -> "FAMILY"
    [] rel_type = "FRIENDSHIP" -> "FRIENDSHIP"
    [] rel_type = "WORK" -> "WORK"
    [] rel_type = "LOVE" -> "LOVE"
    [] OTHER -> ""

\* SkippedSymmetricTypes with RESIDENCE treated as a symmetric type
SkippedSymmetricTypes_WithResidence == {"FAMILY", "FRIENDSHIP", "LOVE", "RESIDENCE"}

\* the types whose first occurrence only records the mirrored key
SkippedSymmetricTypes == {"FAMILY", "FRIENDSHIP", "LOVE"}

\* ReverseOf with the kinds of the endpoints carried over unswapped
ReverseOf_TypesNotSwapped(relation) ==
  [source |-> relation.target,
   target |-> relation.source,
   type |-> bidirectional_map(relation.type),
   confidence |-> RelGet(relation, "confidence", 50),
   context |-> RelGet(relation, "context", << >>),
   source_type |-> RelGet(relation, "source_type", "UNKNOWN"),
   target_type |-> RelGet(relation, "target_type", "UNKNOWN"),
   is_reverse |-> TRUE]

\* the relation appended as the mirror of a relation
ReverseOf(relation) ==
  [source |-> relation.target,
   target |-> relation.source,
   type |-> bidirectional_map(relation.type),
   confidence |-> RelGet(relation, "confidence", 50),
   context |-> RelGet(relation, "context", << >>),
   source_type |-> RelGet(relation, "target_type", "UNKNOWN"),
   target_type |-> RelGet(relation, "source_type", "UNKNOWN"),
   is_reverse |-> TRUE]

\* one iteration of the loop over the input relations; st.all_relations is
\* the output list so far, st.seen_reverse the set of keys recorded so far
BidirectionalStep(st, relation) ==
  LET symmetric_key == << relation.target, relation.source, relation.type >>
      reverse_type == bidirectional_map(relation.type)
      reverse_key == << relation.target, relation.source, reverse_type >>
  IN IF relation.type \in SkippedSymmetricTypes /\ symmetric_key \notin st.seen_reverse
     THEN [st EXCEPT !.seen_reverse = @ \cup {symmetric_key}]
     ELSE IF reverse_type # "" /\ reverse_key \notin st.seen_reverse
     THEN [all_relations |-> Append(st.all_relations, ReverseOf(relation)),
           seen_reverse |-> st.seen_reverse \cup {reverse_key}]
     ELSE st

RECURSIVE BidirectionalFrom(_, _, _)
BidirectionalFrom(st, rels, i) ==
  IF i > Len(rels) THEN st
  ELSE BidirectionalFrom(BidirectionalStep(st, rels[i]), rels, i + 1)

\* _create_bidirectional_relations(relations)
CreateBidirectionalRelations(rels) ==
  BidirectionalFrom([all_relations |-> rels, seen_reverse |-> {}], rels, 1).all_relations

----------------------------------------------------------------------------
(* extract_relations *)

\* the candidates of strategies A and B, in that order
PatternCandidates(text, entities) ==
  ExtractPersonLocationRelations(text, entities)
    \o ExtractPersonPersonRelations(text, entities)

\* ExtractRelations with the fallback tested before strategy B has run
ExtractRelations_FallbackBeforeB(text, entities) ==
  LET found == PatternCandidates(text, entities)
  IN IF Len(ExtractPersonLocationRelations(text, entities)) = 0
          /\ Len(EntityList(entities, "PERSON")) >= 2
     THEN [raised |-> TRUE, candidates |-> found, relations |-> << >>]
     ELSE [raised |-> FALSE,
           candidates |-> found,
           relations |-> CreateBidirectionalRelations(found)]

\* ExtractRelations with the fallback entered whenever no candidate was found
ExtractRelations_NoPersonTest(text, entities) ==
  LET found == PatternCandidates(text, entities)
  IN IF Len(found) = 0
     THEN [raised |-> TRUE, candidates |-> found, relations |-> << >>]
     ELSE [raised |-> FALSE,
           candidates |-> found,
           relations |-> CreateBidirectionalRelations(found)]

\* extract_relations(text, entities).  RelationExtractor defines no method
\* _extract_simple_relations, so the call of line 82 raises AttributeError:
\* raised is TRUE and nothing is returned.
ExtractRelations(text, entities) ==
  LET found == PatternCandidates(text, entities)
  IN IF Len(found) = 0 /\ Len(EntityList(entities, "PERSON")) >= 2
     THEN [raised |-> TRUE, candidates |-> found, relations |-> << >>]
     ELSE [raised |-> FALSE,
           candidates |-> found,
           relations |-> CreateBidirectionalRelations(found)]

----------------------------------------------------------------------------
(* OntologyBuilder *)

\* self.ontology after __init__
EmptyOntology == [entities |-> << >>, relations |-> << >>, relation_types |-> {}]

\* NewOntologyBuilder when the ontology dict is one object that all builders
\* share
NewOntologyBuilder_Shared(existing) == existing

\* OntologyBuilder(): __init__ gives the builder an ontology dict of its own,
\* whatever the ontology of a builder made before holds
NewOntologyBuilder(existing) == EmptyOntology

\* the order in which entities.items() yields the kinds: the insertion order
\* of extract_entities
KindOrder == << "PERSON", "LOC", "ORG" >>

\* AddEntity that writes the entity anew for every mention
AddEntity_Replace(ents, entity_type, entity) ==
  [n \in DOMAIN ents \cup {entity.normalized} |->
     IF n = entity.normalized
     THEN [type |-> entity_type, mentions |-> 1, first_mention |-> RelGet(entity, "start", 0)]
     ELSE ents[n]]

\* one mention of the first loop of build_ontology; ents is
\* self.ontology['entities'], a function from names to entity data
AddEntity(ents, entity_type, entity) ==
  LET name == entity.normalized
  IN IF name \notin DOMAIN ents
     THEN ents @@ (name :> [type |-> entity_type,
                            mentions |-> 1,
                            first_mention |-> RelGet(entity, "start", 0)])
     ELSE [ents EXCEPT ![name].mentions = @ + 1]

RECURSIVE AddEntityList(_, _, _, _)
AddEntityList(ents, entity_type, entity_list, i) ==
  IF i > Len(entity_list) THEN ents
  ELSE AddEntityList(AddEntity(ents, entity_type, entity_list[i]),
                     entity_type, entity_list, i + 1)

RECURSIVE AddEntities(_, _, _)
\* for entity_type, entity_list in entities.items(): ...
AddEntities(ents, entities, k) ==
  IF k > Len(KindOrder) THEN ents
  ELSE AddEntities(AddEntityList(ents, KindOrder[k], EntityList(entities, KindOrder[k]), 1),
                   entities, k + 1)

\* EnsureEntity without the test that the name is no entity yet
EnsureEntity_Overwrite(ents, name, kind) ==
  [n \in DOMAIN ents \cup {name} |->
     IF n = name THEN [type |-> kind, mentions |-> 0] ELSE ents[n]]

\* EnsureEntity that creates nothing
EnsureEntity_Never(ents, name, kind) == ents

\* an endpoint that is no entity yet becomes one, with no mention
EnsureEntity(ents, name, kind) ==
  IF name \notin DOMAIN ents
  THEN ents @@ (name :> [type |-> kind, mentions |-> 0])
  ELSE ents

\* the relation as it is stored
StoredRelation(relation) ==
  [source |-> relation.source,
   target |-> relation.target,
   type |-> relation.type,
   confidence |-> RelGet(relation, "confidence", 50),
   context |-> RelGet(relation, "context", << >>)]

\* AddRelation that leaves relation_types as it is
AddRelation_TypeNotRecorded(ont, relation) ==
  [entities |->
     EnsureEntity(EnsureEntity(ont.entities, relation.source,
                               RelGet(relation, "source_type", "UNKNOWN")),
                  relation.target, RelGet(relation, "target_type", "UNKNOWN")),
   relations |-> Append(ont.relations, StoredRelation(relation)),
   relation_types |-> ont.relation_types]

\* AddRelation that stores a (source, target, type) key once
AddRelation_SkipStoredKey(ont, relation) ==
  [entities |->
     EnsureEntity(EnsureEntity(ont.entities, relation.source,
                               RelGet(relation, "source_type", "UNKNOWN")),
                  relation.target, RelGet(relation, "target_type", "UNKNOWN")),
   relations |->
     IF \E i \in 1..Len(ont.relations) :
           << ont.relations[i].source, ont.relations[i].target, ont.relations[i].type >>
             = << relation.source, relation.target, relation.type >>
     THEN ont.relations
     ELSE Append(ont.relations, StoredRelation(relation)),
   relation_types |-> ont.relation_types \cup {relation.type}]

\* one relation of the second loop of build_ontology
AddRelation(ont, relation) ==
  [entities |->
     EnsureEntity(EnsureEntity(ont.entities, relation.source,
                               RelGet(relation, "source_type", "UNKNOWN")),
                  relation.target, RelGet(relation, "target_type", "UNKNOWN")),
   relations |-> Append(ont.relations, StoredRelation(relation)),
   relation_types |-> ont.relation_types \cup {relation.type}]

RECURSIVE AddRelations(_, _, _)
AddRelations(ont, rels, i) ==
  IF i > Len(rels) THEN ont
  ELSE AddRelations(AddRelation(ont, rels[i]), rels, i + 1)

\* RelationCount that counts an entity as a source only
RelationCount_SourceOnly(rels, name) ==
  Cardinality({i \in 1..Len(rels) : rels[i].source = name})

\* relation_count[name]: +1 for every stored relation the entity is the
\* source of, +1 for every one it is the target of
RelationCount(rels, name) ==
  Cardinality({i \in 1..Len(rels) : rels[i].source = name})
    + Cardinality({i \in 1..Len(rels) : rels[i].target = name})

\* RelationTypeCount that counts a relation once, also when the entity is its
\* source and its target
RelationTypeCount_OncePerRelation(rels, name, rel_type) ==
  Cardinality({i \in 1..Len(rels) :
                 name \in {rels[i].source, rels[i].target} /\ rels[i].type = rel_type})

\* relation_types_count[name][rel_type]
RelationTypeCount(rels, name, rel_type) ==
  Cardinality({i \in 1..Len(rels) : rels[i].source = name /\ rels[i].type = rel_type})
    + Cardinality({i \in 1..Len(rels) : rels[i].target = name /\ rels[i].type = rel_type})

\* dict(relation_types_count[name]): the types the entity takes part in
RelationTypesOf(rels, name) ==
  LET types == {rels[i].type : i \in {j \in 1..Len(rels) :
                                        rels[j].source = name \/ rels[j].target = name}}
  IN [t \in types |-> RelationTypeCount(rels, name, t)]

\* _enrich_entities()
EnrichEntities(ont) ==
  [ont EXCEPT !.entities =
     [name \in DOMAIN ont.entities |->
        [total_relations |-> RelationCount(ont.relations, name),
         relation_types |-> RelationTypesOf(ont.relations, name)]
          @@ ont.entities[name]]]

\* build_ontology(entities, relations) on a builder whose ontology is ont
BuildOntology(ont, entities, rels) ==
  EnrichEntities(
    AddRelations([ont EXCEPT !.entities = AddEntities(ont.entities, entities, 1)], rels, 1))

\* get_statistics()
GetStatistics(ont) ==
  [total_entities |-> Cardinality(DOMAIN ont.entities),
   total_relations |-> Len(ont.relations),
   entity_types |->
     [entity_type \in {"PERSON", "LOC", "ORG"} |->
        Cardinality({name \in DOMAIN ont.entities : ont.entities[name].type = entity_type})],
   relation_types |->
     [rel_type \in ont.relation_types |->
        Cardinality({i \in 1..Len(ont.relations) : ont.relations[i].type = rel_type})]]

----------------------------------------------------------------------------
(* EntityExtractor: _normalize_persons, _normalize_locations and
   _get_location_base_form of entity_extractor.py.  A mention that a group
   holds is a reference to a dict of the input list: the model keeps its
   index in that list. *)

\* str.isupper() of one character: Latin A-Z, Cyrillic U+0400-U+042F
IsUpper(c) == (c >= 65 /\ c <= 90) \/ (c >= 1024 /\ c <= 1071)

\* str.upper() of one character
Upper(c) ==
  IF (c >= 97 /\ c <= 122) \/ (c >= 1072 /\ c <= 1103) THEN c - 32
  ELSE IF c >= 1104 /\ c <= 1119 THEN c - 80
  ELSE c

\* str.upper()
UpperStr(s) == [i \in 1..Len(s) |-> Upper(s[i])]

\* PersonKey that keys a name on its first token alone
PersonKey_FirstToken(normalized_name) ==
  IF Split(normalized_name) # << >> THEN Split(normalized_name)[1] ELSE normalized_name

\* PersonKey that keys a name on its last token alone
PersonKey_LastToken(normalized_name) ==
  IF Split(normalized_name) # << >>
  THEN Split(normalized_name)[Len(Split(normalized_name))]
  ELSE normalized_name

\* the key of a person: first and last word of the normalized name
PersonKey(normalized_name) ==
  LET parts == Split(normalized_name)
  IN IF Len(parts) >= 2 THEN parts[1] \o << 32 >> \o parts[Len(parts)]
     ELSE IF parts # << >> THEN parts[1]
     ELSE normalized_name

\* if key not in groups: groups[key] = {'name': name, ...: []}
\* groups[key][...].append(mention), the mention being number i of the list
GroupPut(groups, key, name, i) ==
  IF \E g \in 1..Len(groups) : groups[g].key = key
  THEN [g \in 1..Len(groups) |->
          IF groups[g].key = key
          THEN [groups[g] EXCEPT !.members = Append(@, i)]
          ELSE groups[g]]
  ELSE Append(groups, [key |-> key, name |-> name, members |-> << i >>])

RECURSIVE PersonGroupsFrom(_, _, _)
PersonGroupsFrom(groups, persons, i) ==
  IF i > Len(persons) THEN groups
  ELSE LET normalized_name == RelGet(persons[i], "normalized", Strip(persons[i].text))
           key == PersonKey(normalized_name)
       IN PersonGroupsFrom(GroupPut(groups, LowerStr(key), key, i), persons, i + 1)

\* person_groups after the first loop of _normalize_persons
PersonGroups(persons) == PersonGroupsFrom(<< >>, persons, 1)

\* CanonicalEntity made of the last mention of the group
CanonicalEntity_LastMention(mention_list, group) ==
  [normalized |-> group.name, mentions_count |-> Len(group.members)]
    @@ mention_list[group.members[Len(group.members)]]

\* the entity made of one group: a copy of its first mention with the group's
\* name and size
CanonicalEntity(mention_list, group) ==
  [normalized |-> group.name, mentions_count |-> Len(group.members)]
    @@ mention_list[group.members[1]]

\* CopiedMentionAfter when the entity is the mention itself and not a copy
CopiedMentionAfter_Alias(mention, canonical) == canonical

\* the first mention of a group after the entity was made of it: .copy()
\* made a new dict, the two assignments go to that one
CopiedMentionAfter(mention, canonical) == mention

\* the input list after the second loop
MentionsAfter(mention_list, groups) ==
  [i \in 1..Len(mention_list) |->
     IF \E g \in 1..Len(groups) : groups[g].members[1] = i
     THEN LET g == CHOOSE h \in 1..Len(groups) : groups[h].members[1] = i
          IN CopiedMentionAfter(mention_list[i], CanonicalEntity(mention_list, groups[g]))
     ELSE mention_list[i]]

\* the list returned by the second loop, in the order of the groups
CanonicalEntities(mention_list, groups) ==
  [g \in 1..Len(groups) |-> CanonicalEntity(mention_list, groups[g])]

\* _normalize_persons(persons): the returned list, the groups it was made of
\* and the input list as the call leaves it
NormalizePersons(persons) ==
  LET groups == PersonGroups(persons)
  IN [normalized |-> CanonicalEntities(persons, groups),
      groups |-> groups,
      mentions |-> MentionsAfter(persons, groups)]

\* "Ufu", "Ufy": declined forms of "Ufa"; "Yuge": a declined form of "Yug"
ufu == <<1091, 1092, 1091>>

ufy == <<1091, 1092, 1099>>

ufa == <<1091, 1092, 1072>>

yuge == <<1102, 1075, 1077>>

yug == <<1102, 1075>>

\* self.morph.parse(word)[0].normal_form: the morphological analyser, a
\* function of the word alone that answers in lower case; the lexicon below
\* stands for its dictionary
normal_form(word) ==
  LET w == LowerStr(word)
  IN IF w \in {ufu, ufy} THEN ufa
     ELSE IF w = yuge THEN yug
     ELSE w

\* the normal form with the capital of the word it was made of
Capitalized(word) ==
  LET nf == normal_form(word)
  IN IF IsUpper(word[1])
     THEN (IF Len(nf) > 1 THEN << Upper(nf[1]) >> \o Tail(nf) ELSE UpperStr(nf))
     ELSE nf

RECURSIVE SplitWordsFrom(_, _, _, _)
SplitWordsFrom(s, i, cur, acc) ==
  IF i > Len(s) THEN (IF cur = << >> THEN acc ELSE Append(acc, cur))
  ELSE IF IsSpace(s[i]) \/ s[i] = 45
       THEN SplitWordsFrom(s, i + 1, << >>, IF cur = << >> THEN acc ELSE Append(acc, cur))
       ELSE SplitWordsFrom(s, i + 1, Append(cur, s[i]), acc)

\* the non-empty words of re.split(r'[\s-]+', name)
SplitWords(s) == SplitWordsFrom(s, 1, << >>, << >>)

RECURSIVE JoinWith(_, _, _)
\* sep.join(words[i:])
JoinWith(sep, words, i) ==
  IF i > Len(words) THEN << >>
  ELSE IF i = Len(words) THEN words[i]
  ELSE words[i] \o sep \o JoinWith(sep, words, i + 1)

\* _get_location_base_form(name)
GetLocationBaseForm(raw_name) ==
  LET name == Strip(raw_name)
      words == SplitWords(name)
      normalized_words == [i \in 1..Len(words) |-> Capitalized(words[i])]
  IN IF name = << >> THEN name
     ELSE IF 45 \in Range(name) THEN JoinWith(<< 45 >>, normalized_words, 1)
     ELSE JoinWith(<< 32 >>, normalized_words, 1)

RECURSIVE LocationGroupsFrom(_, _, _)
LocationGroupsFrom(groups, locations, i) ==
  IF i > Len(locations) THEN groups
  ELSE LET name == RelGet(locations[i], "normalized", Strip(locations[i].text))
           base_name == GetLocationBaseForm(name)
       IN LocationGroupsFrom(GroupPut(groups, LowerStr(base_name), base_name, i),
                             locations, i + 1)

\* loc_groups after the first loop of _normalize_locations
LocationGroups(locations) == LocationGroupsFrom(<< >>, locations, 1)

\* _normalize_locations(locations)
NormalizeLocations(locations) ==
  LET groups == LocationGroups(locations)
  IN [normalized |-> CanonicalEntities(locations, groups),
      groups |-> groups,
      mentions |-> MentionsAfter(locations, groups)]

----------------------------------------------------------------------------
(* Inputs *)

\* number of words of a generated text
MaxWords == 3

\* number of person mentions of a generated entity mapping
MaxPersons == 2

\* number of location mentions of a generated entity mapping
MaxLocs == 1

\* number of relations of a list given to the synthesizer alone
MaxRels == 2

\* number of build_ontology calls on one builder
MaxBuilds == 2

\* number of relations one builder stores
MaxStored == 3

\* the text of scenario 1, "Ivan zhivyot v Saratove."
Text1 == <<1048, 1074, 1072, 1085, 32, 1078, 1080, 1074, 1105, 1090, 32, 1074, 32, 1057, 1072, 1088, 1072, 1090, 1086, 1074, 1077, 46>>

\* the text of scenario 2, "Pyotr i Anna -- druzya."
Text2 == <<1055, 1105, 1090, 1088, 32, 1080, 32, 1040, 1085, 1085, 1072, 32, 8212, 32, 1076, 1088, 1091, 1079, 1100, 1103, 46>>

\* "Ivan"
Ivan == <<1048, 1074, 1072, 1085>>

\* "Saratove", the surface form
Saratove == <<1057, 1072, 1088, 1072, 1090, 1086, 1074, 1077>>

\* "Saratov", the normalized form
Saratov == <<1057, 1072, 1088, 1072, 1090, 1086, 1074>>

\* "Pyotr"
Pyotr == <<1055, 1105, 1090, 1088>>

\* "Anna"
Anna == <<1040, 1085, 1085, 1072>>

\* a person name, "Al"
Al == <<65, 108>>

\* a person name, "Ed"
Ed == <<69, 100>>

\* a location in a declined form, "Ufu"
Ufu == <<1059, 1092, 1091>>

\* its normalized form, "Ufa"
Ufa == <<1059, 1092, 1072>>

\* a residence keyword, "iz"
iz == <<1080, 1079>>

\* a work keyword, "boss"
boss == <<98, 111, 115, 115>>

\* an organization, "Acme"
Acme == <<65, 99, 109, 101>>

\* a mention as the recognizer reports it
Mention(surface, normalized, start) ==
  [text |-> surface, normalized |-> normalized, start |-> start, end |-> start + Len(surface)]

Scenario1 ==
  [text |-> Text1,
   entities |-> [PERSON |-> << Mention(Ivan, Ivan, 0) >>,
                 LOC |-> << Mention(Saratove, Saratov, 13) >>,
                 ORG |-> << >>]]

Scenario2 ==
  [text |-> Text2,
   entities |-> [PERSON |-> << Mention(Pyotr, Pyotr, 0), Mention(Anna, Anna, 7) >>,
                 LOC |-> << >>,
                 ORG |-> << >>]]

\* a residence keyword, "rodom"
rodom == <<1088, 1086, 1076, 1086, 1084>>

\* a location whose forms are alike, "Omsk"
Omsk == <<1054, 1084, 1089, 1082>>

\* a run of full stops longer than the search window around a keyword
Dots == [i \in 1..120 |-> 46]

\* "Al iz Ufu", the run of full stops, " rodom Omsk": two residence keywords,
\* each with one town in its search window
TwoTownsText ==
  Al \o << 32 >> \o iz \o << 32 >> \o Ufu \o Dots \o << 32 >> \o rodom \o << 32 >> \o Omsk

ScenarioTwoTowns ==
  [text |-> TwoTownsText,
   entities |-> [PERSON |-> << Mention(Al, Al, 0) >>,
                 LOC |-> << Mention(Ufu, Ufa, 6), Mention(Omsk, Omsk, 136) >>,
                 ORG |-> << >>]]

\* "Al iz Ufu"
ShortText == Al \o << 32 >> \o iz \o << 32 >> \o Ufu

\* the person mention carries offsets beyond the end of the text
ScenarioStaleOffsets ==
  [text |-> ShortText,
   entities |-> [PERSON |-> << Mention(Al, Al, 40) >>,
                 LOC |-> << Mention(Ufu, Ufa, 6) >>,
                 ORG |-> << >>]]

\* the words generated texts are made of
Vocabulary == {Al, Ed, Ufu, iz, boss}

RECURSIVE JoinFrom(_, _)
JoinFrom(words, i) ==
  IF i > Len(words) THEN << >>
  ELSE IF i = Len(words) THEN words[i]
  ELSE words[i] \o << 32 >> \o JoinFrom(words, i + 1)

\* the words separated by one space
JoinWords(words) == JoinFrom(words, 1)

\* the lists of at most n elements of S
ListsUpTo(S, n) == UNION {[1..k -> S] : k \in 0..n}

Texts == {JoinWords(words) : words \in ListsUpTo(Vocabulary, MaxWords)}

PersonMentions == {Mention(Al, Al, 0), Mention(Ed, Ed, 0)}

LocMentions == {Mention(Ufu, Ufa, 0), Mention(Ufu, Ufu, 0)}

\* a dict with the kinds of the set kinds as keys
MappingOf(kinds, persons, locs, orgs) ==
  [k \in kinds |-> IF k = "PERSON" THEN persons ELSE IF k = "LOC" THEN locs ELSE orgs]

\* the entity mappings given to extract_relations: every kind is absent or
\* holds a list of mentions
EntityMappings ==
  {MappingOf(kinds, persons, locs, orgs) :
     kinds \in SUBSET {"PERSON", "LOC", "ORG"},
     persons \in ListsUpTo(PersonMentions, MaxPersons),
     locs \in ListsUpTo(LocMentions, MaxLocs),
     orgs \in {<< Mention(Acme, Acme, 0) >>}}

Inputs ==
  {Scenario1, Scenario2, ScenarioTwoTowns, ScenarioStaleOffsets}
    \cup {[text |-> t, entities |-> e] : t \in Texts, e \in EntityMappings}

----------------------------------------------------------------------------
(* State *)

VARIABLES
  text,        \* the text given to extract_relations
  entities,    \* the entity mapping given to extract_relations and build_ontology
  candidates,  \* the relations list before _create_bidirectional_relations
  relations,   \* the list returned by extract_relations / the synthesizer, given to build_ontology
  raised,      \* TRUE when extract_relations ended with an exception
  ontology,    \* self.ontology of the OntologyBuilder
  builds,      \* number of build_ontology calls made on the builder
  statistics,  \* the value returned by the last get_statistics call
  mentions,    \* the mention lists of the recognizer, given to the normalizers
  groups,      \* person_groups / loc_groups of the last normalizer calls
  pc           \* position of the caller

vars ==
  << text, entities, candidates, relations, raised, ontology, builds, statistics,
     mentions, groups, pc >>

NoStatistics == [returned |-> FALSE]

----------------------------------------------------------------------------
(* The pipeline of main.py / app.py: extract_relations, then a fresh
   OntologyBuilder, build_ontology and get_statistics *)

Init ==
  /\ \E input \in Inputs : text = input.text /\ entities = input.entities
  /\ candidates = << >>
  /\ relations = << >>
  /\ raised = FALSE
  /\ ontology = EmptyOntology
  /\ builds = 0
  /\ statistics = NoStatistics
  /\ mentions = << >>
  /\ groups = << >>
  /\ pc = "start"

\* relations = relation_extractor.extract_relations(text, entities)
ExtractRelationsCall ==
  /\ pc = "start"
  /\ LET result == ExtractRelations(text, entities)
     IN /\ raised' = result.raised
        /\ candidates' = result.candidates
        /\ relations' = result.relations
        /\ pc' = IF result.raised THEN "raised" ELSE "extracted"
  /\ UNCHANGED << text, entities, ontology, builds, statistics >>
  /\ UNCHANGED << mentions, groups >>

\* ontology_builder = OntologyBuilder(); ontology_builder.build_ontology(entities, relations)
BuildOntologyCall ==
  /\ pc = "extracted"
  /\ ontology' = BuildOntology(NewOntologyBuilder(ontology), entities, relations)
  /\ builds' = builds + 1
  /\ pc' = "built"
  /\ UNCHANGED << text, entities, candidates, relations, raised, statistics >>
  /\ UNCHANGED << mentions, groups >>

\* statistics = ontology_builder.get_statistics()
GetStatisticsCall ==
  /\ pc = "built"
  /\ statistics' = [returned |-> TRUE] @@ GetStatistics(ontology)
  /\ pc' = "reported"
  /\ UNCHANGED << text, entities, candidates, relations, raised, ontology, builds >>
  /\ UNCHANGED << mentions, groups >>

\* the aggregation run once more from scratch on the same lists:
\* ontology_builder = OntologyBuilder(); ontology_builder.build_ontology(entities, relations)
RebuildOntologyCall ==
  /\ pc = "reported"
  /\ ontology' = BuildOntology(NewOntologyBuilder(ontology), entities, relations)
  /\ builds' = 1
  /\ pc' = "rebuilt"
  /\ UNCHANGED << text, entities, candidates, relations, raised, statistics >>
  /\ UNCHANGED << mentions, groups >>

\* statistics = ontology_builder.get_statistics() of the second builder
RestatisticsCall ==
  /\ pc = "rebuilt"
  /\ statistics' = [returned |-> TRUE] @@ GetStatistics(ontology)
  /\ pc' = "rereported"
  /\ UNCHANGED << text, entities, candidates, relations, raised, ontology, builds >>
  /\ UNCHANGED << mentions, groups >>

Next ==
  \/ ExtractRelationsCall
  \/ BuildOntologyCall
  \/ GetStatisticsCall
  \/ RebuildOntologyCall
  \/ RestatisticsCall

Spec == Init /\ [][Next]_vars

----------------------------------------------------------------------------
(* The synthesizer alone: _create_bidirectional_relations on any list *)

\* the names the relations given to the synthesizer and the builder use
RelationNames == {Al, Ufa}

RelationTypes == {"RESIDENCE", "HAS_RESIDENT", "FAMILY", "FRIENDSHIP", "WORK", "LOVE"}

\* a relation with every field the strategies set
FullRelation(source, target, type) ==
  [source |-> source,
   target |-> target,
   type |-> type,
   confidence |-> 75,
   context |-> iz,
   source_type |-> IF type = "HAS_RESIDENT" THEN "LOC" ELSE "PERSON",
   target_type |-> IF type = "RESIDENCE" THEN "LOC" ELSE "PERSON"]

SynthRelations ==
  {FullRelation(s, t, ty) : s \in RelationNames, t \in RelationNames, ty \in RelationTypes}

SynthInit ==
  /\ text = << >>
  /\ entities = << >>
  /\ candidates \in ListsUpTo(SynthRelations, MaxRels)
  /\ relations = << >>
  /\ raised = FALSE
  /\ ontology = EmptyOntology
  /\ builds = 0
  /\ statistics = NoStatistics
  /\ mentions = << >>
  /\ groups = << >>
  /\ pc = "synthesize"

\* relations = self._create_bidirectional_relations(relations)
CreateBidirectionalCall ==
  /\ pc = "synthesize"
  /\ relations' = CreateBidirectionalRelations(candidates)
  /\ pc' = "synthesized"
  /\ UNCHANGED << text, entities, candidates, raised, ontology, builds, statistics >>
  /\ UNCHANGED << mentions, groups >>

SynthNext == CreateBidirectionalCall

SpecSynth == SynthInit /\ [][SynthNext]_vars

----------------------------------------------------------------------------
(* One OntologyBuilder, build_ontology called with any entity mapping and any
   relation list, get_statistics called in between *)

\* number of mentions of one name in a mapping given to the builder
MaxMentions == 2

\* the mappings given to the builder: the name Al is reported as a person
\* and as a location
BuilderMappings ==
  {<< >>}
    \cup {[PERSON |-> p, LOC |-> l, ORG |-> << Mention(Acme, Acme, 0) >>] :
            p \in ListsUpTo({Mention(Al, Al, 0)}, MaxMentions),
            l \in ListsUpTo({Mention(Ufu, Ufa, 4), Mention(Al, Al, 8)}, 1)}

\* the relations given to the builder: complete ones, a relation of an entity
\* with itself, and one that has only its key
BuilderRelations ==
  {FullRelation(Al, Ufa, "RESIDENCE"),
   FullRelation(Ufa, Al, "HAS_RESIDENT"),
   FullRelation(Al, Ed, "FAMILY"),
   FullRelation(Al, Al, "WORK"),
   [source |-> Ed, target |-> Ufa, type |-> "RESIDENCE"]}

BuilderInit ==
  /\ text = << >>
  /\ entities = << >>
  /\ candidates = << >>
  /\ relations = << >>
  /\ raised = FALSE
  /\ ontology = EmptyOntology
  /\ builds = 0
  /\ statistics = NoStatistics
  /\ mentions = << >>
  /\ groups = << >>
  /\ pc = "builder"

\* builder.build_ontology(ents, rels)
BuildOntologyAny ==
  /\ pc \in {"builder", "counted"}
  /\ builds < MaxBuilds
  /\ \E ents \in BuilderMappings, rels \in ListsUpTo(BuilderRelations, MaxStored) :
        /\ Len(ontology.relations) + Len(rels) <= MaxStored
        /\ entities' = ents
        /\ relations' = rels
        /\ ontology' = BuildOntology(ontology, ents, rels)
  /\ builds' = builds + 1
  /\ statistics' = NoStatistics
  /\ pc' = "builder"
  /\ UNCHANGED << text, candidates, raised >>
  /\ UNCHANGED << mentions, groups >>

\* statistics = builder.get_statistics()
GetStatisticsAny ==
  /\ pc = "builder"
  /\ statistics' = [returned |-> TRUE] @@ GetStatistics(ontology)
  /\ pc' = "counted"
  /\ UNCHANGED << text, entities, candidates, relations, raised, ontology, builds >>
  /\ UNCHANGED << mentions, groups >>

BuilderNext == BuildOntologyAny \/ GetStatisticsAny

SpecBuilder == BuilderInit /\ [][BuilderNext]_vars

----------------------------------------------------------------------------
(* The normalizers: the end of extract_entities on any mention lists, run
   once more on the same lists, and build_ontology on what they return *)

\* number of mentions, of persons and locations together, the recognizer reports
MaxRaw == 3

\* "Ivana"
Ivana == <<1048, 1074, 1072, 1085, 1072>>

\* "Petrov"
Petrov == <<1055, 1077, 1090, 1088, 1086, 1074>>

\* "Ivan Petrov"
IvanPetrov == <<1048, 1074, 1072, 1085, 32, 1055, 1077, 1090, 1088, 1086, 1074>>

\* "IVAN"
IVAN == <<1048, 1042, 1040, 1053>>

\* "Ivan Ilyich Petrov"
IvanIlyichPetrov == <<1048, 1074, 1072, 1085, 32, 1048, 1083, 1100, 1080, 1095, 32, 1055, 1077, 1090, 1088, 1086, 1074>>

\* " Ivan ", a surface form with blanks around it
IvanPadded == <<32, 1048, 1074, 1072, 1085, 32>>

\* "Ufy", a declined form of "Ufa"
Ufy == <<1059, 1092, 1099>>

\* "Ufu-Yuge", a declined form of "Ufa-Yug"
UfuYuge == <<1059, 1092, 1091, 45, 1070, 1075, 1077>>

\* "Ufa-Yug"
UfaYug == <<1059, 1092, 1072, 45, 1070, 1075>>

\* "Ufa Yug"
UfaSpaceYug == <<1059, 1092, 1072, 32, 1070, 1075>>

\* "Ufu-Yuge Ufy", a name with a hyphen and a blank
UfuYugeUfy == <<1059, 1092, 1091, 45, 1070, 1075, 1077, 32, 1059, 1092, 1099>>

\* the person mentions of the recognizer, without their offsets; the last
\* one has no normalized form
PersonForms ==
  {[text |-> Ivan, normalized |-> Ivan],
   [text |-> Ivana, normalized |-> Ivana],
   [text |-> Petrov, normalized |-> Petrov],
   [text |-> IvanPetrov, normalized |-> IvanPetrov],
   [text |-> IVAN, normalized |-> IVAN],
   [text |-> IvanIlyichPetrov, normalized |-> IvanIlyichPetrov],
   [text |-> IvanPadded]}

\* the location mentions of the recognizer, without their offsets
LocForms ==
  {[text |-> Ufu, normalized |-> Ufa],
   [text |-> Ufy, normalized |-> Ufy],
   [text |-> ufy, normalized |-> ufa],
   [text |-> UfuYuge, normalized |-> UfaYug],
   [text |-> UfaSpaceYug, normalized |-> UfaSpaceYug],
   [text |-> UfuYugeUfy, normalized |-> UfuYugeUfy]}

\* the dicts appended to entities[entity_type]: mention number i of its list
\* starts at a place of its own
RawMentions(forms) ==
  [i \in 1..Len(forms) |->
     forms[i] @@ [start |-> 20 * (i - 1),
                  end |-> 20 * (i - 1) + Len(forms[i].text),
                  chunks |-> << >>]]

\* the entities dict of extract_entities before the normalizers run
RawMappings ==
  UNION {{[PERSON |-> RawMentions(p), LOC |-> RawMentions(l), ORG |-> << Mention(Acme, Acme, 0) >>] :
            l \in ListsUpTo(LocForms, MaxRaw - Len(p))} :
         p \in ListsUpTo(PersonForms, MaxRaw)}

NormInit ==
  /\ text = << >>
  /\ entities = << >>
  /\ candidates = << >>
  /\ relations = << >>
  /\ raised = FALSE
  /\ ontology = EmptyOntology
  /\ builds = 0
  /\ statistics = NoStatistics
  /\ mentions \in RawMappings
  /\ groups = << >>
  /\ pc = "recognized"

\* entities['PERSON'] = self._normalize_persons(entities['PERSON'])
\* entities['LOC'] = self._normalize_locations(entities['LOC'])
\* on the lists of the recognizer, the first time and once more
NormalizeCall ==
  /\ pc \in {"recognized", "normalized"}
  /\ LET persons == NormalizePersons(mentions.PERSON)
         locations == NormalizeLocations(mentions.LOC)
     IN /\ entities' = [PERSON |-> persons.normalized,
                        LOC |-> locations.normalized,
                        ORG |-> mentions.ORG]
        /\ groups' = [PERSON |-> persons.groups, LOC |-> locations.groups]
        /\ mentions' = [PERSON |-> persons.mentions,
                        LOC |-> locations.mentions,
                        ORG |-> mentions.ORG]
  /\ pc' = IF pc = "recognized" THEN "normalized" ELSE "renormalized"
  /\ UNCHANGED << text, candidates, relations, raised, ontology, builds, statistics >>

\* OntologyBuilder().build_ontology(entities, relations) on the normalized
\* entities
AggregateCall ==
  /\ pc \in {"normalized", "renormalized"}
  /\ ontology' = BuildOntology(EmptyOntology, entities, relations)
  /\ builds' = builds + 1
  /\ pc' = "aggregated"
  /\ UNCHANGED << text, entities, candidates, relations, raised, statistics, mentions, groups >>

NormNext == NormalizeCall \/ AggregateCall

SpecNorm == NormInit /\ [][NormNext]_vars

----------------------------------------------------------------------------
(* Properties *)

\* no two relations of the list have the same (source, target, type)
NoDuplicateTriples(rels) ==
  \A i \in 1..Len(rels), j \in 1..Len(rels) :
     i # j => Triple(rels[i]) # Triple(rels[j])

\* the list holds a relation target -> source of the given type
HasMirror(rels, relation, mirror_type) ==
  \E j \in 1..Len(rels) :
     /\ rels[j].source = relation.target
     /\ rels[j].target = relation.source
     /\ rels[j].type = mirror_type

\* extract_relations has returned
Returned == pc \in {"extracted", "built", "reported", "rebuilt", "rereported"}

\* C1: whenever extract_relations returns, no two relations of the returned
\* list (extracted and synthesized) have the same (source, target, type).
C1_TripleUniqueness == Returned => NoDuplicateTriples(relations)

\* C1 case: a returned list that holds several extracted relations and their
\* synthesized mirrors
C1_Witness ==
  /\ pc = "extracted"
  /\ Len(candidates) >= 2
  /\ Len(relations) = 2 * Len(candidates)

\* C2: given relations with pairwise distinct triples, the synthesizer
\* returns a list in which no two relations share a triple.
C2_SynthesizerKeepsTriplesDistinct ==
  (pc = "synthesized" /\ NoDuplicateTriples(candidates))
    => NoDuplicateTriples(relations)

\* C3: for every RESIDENCE relation (A, B) given to the synthesizer, its
\* output holds a HAS_RESIDENT relation (B, A).
C3_ResidenceMirror ==
  pc = "synthesized" =>
    \A i \in 1..Len(candidates) :
       candidates[i].type = "RESIDENCE" => HasMirror(relations, candidates[i], "HAS_RESIDENT")

\* C3 case: a RESIDENCE relation was given to the synthesizer after a
\* HAS_RESIDENT relation of other endpoints
C3_Witness ==
  /\ pc = "synthesized"
  /\ Len(candidates) = 2
  /\ candidates[1].type = "HAS_RESIDENT"
  /\ candidates[2].type = "RESIDENCE"
  /\ candidates[2].source # candidates[1].target
  /\ Len(relations) = 3

\* C4: for every relation (A, B, T) with T in FAMILY, FRIENDSHIP, WORK, LOVE
\* given to the synthesizer, its output holds a relation (B, A, T).
C4_SymmetricMirror ==
  pc = "synthesized" =>
    \A i \in 1..Len(candidates) :
       candidates[i].type \in {"FAMILY", "FRIENDSHIP", "WORK", "LOVE"}
         => HasMirror(relations, candidates[i], candidates[i].type)

\* C5: both endpoints of every relation the ontology stores are keys of its
\* entity mapping, whatever was given to build_ontology.
C5_ReferentialCompleteness ==
  \A i \in 1..Len(ontology.relations) :
     /\ ontology.relations[i].source \in DOMAIN ontology.entities
     /\ ontology.relations[i].target \in DOMAIN ontology.entities

\* C5 case: a stored relation has an endpoint that no mention named, an entity
\* created from the relation
C5_Witness ==
  /\ builds >= 1
  /\ \E i \in 1..Len(ontology.relations) :
        /\ ontology.relations[i].source \in DOMAIN ontology.entities
        /\ ontology.entities[ontology.relations[i].source].mentions = 0

RECURSIVE SumTotalRelations(_, _)
\* the sum of total_relations over the entities of the set names
SumTotalRelations(ents, names) ==
  IF names = {} THEN 0
  ELSE LET name == CHOOSE n \in names : TRUE
       IN ents[name].total_relations + SumTotalRelations(ents, names \ {name})

\* C6: after build_ontology the total_relations of all entities sum to twice
\* the number of stored relations.
C6_StatisticsConsistency ==
  builds >= 1 =>
    SumTotalRelations(ontology.entities, DOMAIN ontology.entities)
      = 2 * Len(ontology.relations)

\* C6 case: the ontology stores a relation of an entity with itself next to
\* relations between two entities
C6_Witness ==
  /\ builds >= 1
  /\ Len(ontology.relations) >= 2
  /\ \E i \in 1..Len(ontology.relations) :
        ontology.relations[i].source = ontology.relations[i].target
  /\ \E i \in 1..Len(ontology.relations) :
        ontology.relations[i].source # ontology.relations[i].target

\* one person and one location, and both methods of strategy A find the pair
BothMethodsDetect ==
  /\ Len(EntityList(entities, "PERSON")) = 1
  /\ Len(EntityList(entities, "LOC")) = 1
  /\ PatternRelations(text, entities["PERSON"], entities["LOC"]) # << >>
  /\ ProximityRelations(text, entities["PERSON"], entities["LOC"]) # << >>

\* C7: when the keyword method and the proximity method both find the one
\* person and the one location, extract_relations returns exactly two
\* relations, RESIDENCE person -> location and HAS_RESIDENT location ->
\* person, both with confidence 0.8.
C7_ResidenceScenario ==
  (pc = "extracted" /\ BothMethodsDetect) =>
    /\ Len(relations) = 2
    /\ Triple(relations[1])
         = << entities["PERSON"][1].normalized, entities["LOC"][1].normalized, "RESIDENCE" >>
    /\ Triple(relations[2])
         = << entities["LOC"][1].normalized, entities["PERSON"][1].normalized, "HAS_RESIDENT" >>
    /\ relations[1].confidence = 80
    /\ relations[2].confidence = 80

\* C7 case: scenario 1 has been extracted, both methods having found the pair
C7_Witness ==
  /\ pc = "extracted"
  /\ text = Text1
  /\ entities = Scenario1.entities
  /\ BothMethodsDetect
  /\ Triple(relations[1]) = << Ivan, Saratov, "RESIDENCE" >>

\* C8: when strategy B keeps one FRIENDSHIP relation of two persons
\* (scenario 2), extract_relations returns exactly two relations, that one
\* and its mirror.
C8_FriendshipScenario ==
  (pc = "extracted" /\ Len(candidates) = 1 /\ candidates[1].type = "FRIENDSHIP") =>
    /\ Len(relations) = 2
    /\ Triple(relations[1]) = Triple(candidates[1])
    /\ Triple(relations[2])
         = << candidates[1].target, candidates[1].source, "FRIENDSHIP" >>

\* the mapping holds no mention: every kind is absent or empty
NoMentions == \A kind \in DOMAIN entities : entities[kind] = << >>

\* C9: with no mention of any kind, extract_relations raises nothing and
\* returns the empty list, the ontology built from it has no entity and no
\* relation, and its statistics are all zero with no per-type count.
C9_EmptyInput ==
  NoMentions =>
    /\ pc # "raised"
    /\ Returned => relations = << >>
    /\ pc \in {"built", "reported"} =>
         /\ DOMAIN ontology.entities = {}
         /\ ontology.relations = << >>
    /\ pc = "reported" =>
         /\ statistics.total_entities = 0
         /\ statistics.total_relations = 0
         /\ \A kind \in {"PERSON", "LOC", "ORG"} : statistics.entity_types[kind] = 0
         /\ DOMAIN statistics.relation_types = {}

\* C9 case: the statistics of a run on a non-empty text whose mapping has
\* the PERSON kind with an empty list and lacks the LOC kind
C9_Witness ==
  /\ pc = "reported"
  /\ NoMentions
  /\ text # << >>
  /\ "PERSON" \in DOMAIN entities
  /\ "LOC" \notin DOMAIN entities

\* C10: with at least two persons and no relation found by strategies A and
\* B, extract_relations raises no exception and returns a list without a
\* duplicated (source, target, type).
C10_FallbackTotal ==
  (pc # "start" /\ Len(EntityList(entities, "PERSON")) >= 2 /\ candidates = << >>) =>
    /\ ~ raised
    /\ NoDuplicateTriples(relations)

\* the normalizers have returned
Normalized == pc \in {"normalized", "renormalized", "aggregated"}

\* the normalized form of a mention, its stripped surface form when it has none
NormalizedForm(mention) == RelGet(mention, "normalized", Strip(mention.text))

\* first token, space, last token of a form of two tokens or more; the token
\* of a one-token form
FirstAndLastToken(form) ==
  LET tokens == Split(form)
  IN IF Len(tokens) >= 2 THEN tokens[1] \o << 32 >> \o tokens[Len(tokens)]
     ELSE tokens[1]

\* the dedup key of person mention number i, in lower case
DedupKey(i) == LowerStr(FirstAndLastToken(NormalizedForm(mentions.PERSON[i])))

\* person mentions number i and j are in the same group
SameBucket(i, j) ==
  \E g \in 1..Len(groups.PERSON) :
     i \in Range(groups.PERSON[g].members) /\ j \in Range(groups.PERSON[g].members)

\* C11: two person mentions are in the same canonical entity if and only if
\* their keys (first token + space + last token, or the one token) are equal
\* case-insensitively; "Ivan" and "Ivana" are in distinct entities; the
\* output has exactly one entity per distinct key.
C11_PersonDedupKey ==
  Normalized =>
    LET n == Len(mentions.PERSON)
    IN /\ \A i \in 1..n : SameBucket(i, i)
       /\ \A i \in 1..n, j \in 1..n : SameBucket(i, j) <=> DedupKey(i) = DedupKey(j)
       /\ \A i \in 1..n, j \in 1..n :
            (NormalizedForm(mentions.PERSON[i]) = Ivan
               /\ NormalizedForm(mentions.PERSON[j]) = Ivana) => ~ SameBucket(i, j)
       /\ Len(entities.PERSON) = Cardinality({DedupKey(i) : i \in 1..n})
       /\ \A g \in 1..Len(entities.PERSON), h \in 1..Len(entities.PERSON) :
            g # h => LowerStr(entities.PERSON[g].normalized)
                       # LowerStr(entities.PERSON[h].normalized)

\* C11 case: "Ivan", "Ivana" and a mention that differs from "Ivan" in case
\* only were normalized into two entities
C11_Witness ==
  /\ pc = "normalized"
  /\ Len(mentions.PERSON) = 3
  /\ Len(entities.PERSON) = 2
  /\ \E i, j, k \in 1..3 :
        /\ mentions.PERSON[i].text = Ivan
        /\ mentions.PERSON[j].text = Ivana
        /\ mentions.PERSON[k].text = IVAN
        /\ SameBucket(i, k)

\* the tokens of person mention number i, in lower case
Tokens(i) == Split(LowerStr(NormalizedForm(mentions.PERSON[i])))

C15_StoredRelationUniqueness == NoDuplicateTriples(ontology.relations)

\* C16: in the ontology built from what the normalizers return, the mention
\* count of every PERSON or LOC entity is the size of its dedup bucket, the
\* number of mentions of the recognizer that the normalizer absorbed into it.
C16_MentionCountEndToEnd ==
  pc = "aggregated" =>
    \A kind \in {"PERSON", "LOC"} :
       \A g \in 1..Len(groups[kind]) :
          /\ groups[kind][g].name \in DOMAIN ontology.entities
          /\ ontology.entities[groups[kind][g].name].mentions
               = Len(groups[kind][g].members)

\* the list _extract_person_person_relations returned: the candidates of the
\* four person - person types, strategy A emitting RESIDENCE only
PersonPersonCandidates ==
  SelectSeq(candidates, LAMBDA rel : rel.type \in {"FAMILY", "FRIENDSHIP", "WORK", "LOVE"})

\* what strategy B found before it removed duplicates
PersonPersonFound ==
  LET persons == EntityList(entities, "PERSON")
  IN Flatten([p \in 1..Len(persons) |-> FirstPersonRelations(text, persons, persons[p])])

\* C17: the list strategy B returns never holds two relations with the same
\* (source, target, type), and never both (A, B, T) and (B, A, T).
C17_OneDirectionOnly ==
  pc # "start" =>
    LET found == PersonPersonCandidates
    IN /\ NoDuplicateTriples(found)
       /\ \A i \in 1..Len(found), j \in 1..Len(found) :
            i # j => Triple(found[i]) # << found[j].target, found[j].source, found[j].type >>

\* C17 case: strategy B found a relation in both directions and returned one
\* of the two
C17_Witness ==
  /\ pc = "extracted"
  /\ Len(PersonPersonCandidates) = 1
  /\ LET found == PersonPersonFound
     IN \E i \in 1..Len(found), j \in 1..Len(found) :
           /\ found[i].source # found[i].target
           /\ Triple(found[i]) = << found[j].target, found[j].source, found[j].type >>

\* C18: extract_relations reaches the call of the fallback strategy exactly
\* when strategies A and B, both run, returned no relation at all and the
\* PERSON list has at least two entities; in every other case it does not.
C18_FallbackTrigger ==
  pc # "start" =>
    (raised <=> (candidates = << >> /\ Len(EntityList(entities, "PERSON")) >= 2))

\* C18 case: the fallback was reached on a text that names both persons and
\* the location of the mapping
C18_Witness ==
  /\ pc = "raised"
  /\ Len(EntityList(entities, "PERSON")) = 2
  /\ Len(EntityList(entities, "LOC")) = 1
  /\ \A kind \in {"PERSON", "LOC"} :
        \A i \in 1..Len(entities[kind]) : Contains(text, entities[kind][i].text)

\* the kind the relations record for an endpoint name: the source_type or
\* target_type of its first reference, UNKNOWN when that relation has none
RecordedKind(rels, name) ==
  LET i == MinOfSet({j \in 1..Len(rels) : name \in {rels[j].source, rels[j].target}})
  IN IF rels[i].source = name
     THEN RelGet(rels[i], "source_type", "UNKNOWN")
     ELSE RelGet(rels[i], "target_type", "UNKNOWN")

\* C19: in every build_ontology call, an endpoint of a relation that is no
\* entity when the relations are processed becomes an entity with mention
\* count 0 and the kind the relation records for it (UNKNOWN when it records
\* none); an entity that exists by then keeps its kind and mention count.
C19_LazyEndpointCreation ==
  [][builds' = builds + 1 =>
       LET known == AddEntities(ontology.entities, entities', 1)
           endpoints == UNION {{relations'[i].source, relations'[i].target} :
                                 i \in 1..Len(relations')}
       IN /\ DOMAIN ontology'.entities = DOMAIN known \cup endpoints
          /\ \A name \in endpoints \ DOMAIN known :
               /\ ontology'.entities[name].mentions = 0
               /\ ontology'.entities[name].type = RecordedKind(relations', name)
          /\ \A name \in DOMAIN known :
               /\ ontology'.entities[name].mentions = known[name].mentions
               /\ ontology'.entities[name].type = known[name].type]_vars

\* C19 case: one call created an entity of kind UNKNOWN and an entity of a
\* recorded kind from relation endpoints, next to an entity that mentions had
\* made
C19_Witness ==
  /\ builds >= 1
  /\ \E a, b, c \in DOMAIN ontology.entities :
        /\ ontology.entities[a].mentions = 0 /\ ontology.entities[a].type = "UNKNOWN"
        /\ ontology.entities[b].mentions = 0 /\ ontology.entities[b].type = "PERSON"
        /\ ontology.entities[c].mentions >= 1
        /\ \E i \in 1..Len(ontology.relations) :
              c \in {ontology.relations[i].source, ontology.relations[i].target}

\* the number of relations of the list with the given type and source, plus
\* the number with the given type and target
EndpointCount(rels, name, rel_type) ==
  Cardinality({i \in 1..Len(rels) : rels[i].type = rel_type /\ rels[i].source = name})
    + Cardinality({i \in 1..Len(rels) : rels[i].type = rel_type /\ rels[i].target = name})

RECURSIVE SumOfCounts(_, _)
\* the sum of the counts of a dict over the keys of the set keys
SumOfCounts(counts, keys) ==
  IF keys = {} THEN 0
  ELSE LET k == CHOOSE x \in keys : TRUE
       IN counts[k] + SumOfCounts(counts, keys \ {k})

\* C20: after every build_ontology call, relation_types[e][T] of every
\* entity e is the number of stored relations of type T with source e plus
\* the number with target e (a type with none has no entry),
\* total_relations[e] is the sum of relation_types[e], and the mention count
\* of e is the one it had before the relations were processed.
C20_RelationCountingPass ==
  [][builds' = builds + 1 =>
       LET known == AddEntities(ontology.entities, entities', 1)
           stored == ontology'.relations
       IN \A e \in DOMAIN ontology'.entities :
            LET data == ontology'.entities[e]
            IN /\ \A T \in RelationTypes :
                    IF EndpointCount(stored, e, T) = 0
                    THEN T \notin DOMAIN data.relation_types
                    ELSE /\ T \in DOMAIN data.relation_types
                         /\ data.relation_types[T] = EndpointCount(stored, e, T)
               /\ DOMAIN data.relation_types \subseteq RelationTypes
               /\ data.total_relations
                    = SumOfCounts(data.relation_types, DOMAIN data.relation_types)
               /\ data.mentions = IF e \in DOMAIN known THEN known[e].mentions ELSE 0]_vars

\* C20 case: an entity with mentions is the source and the target of one
\* stored relation and an endpoint of a relation of another type
C20_Witness ==
  /\ builds >= 1
  /\ \E e \in DOMAIN ontology.entities :
        /\ ontology.entities[e].mentions >= 1
        /\ Cardinality(DOMAIN ontology.entities[e].relation_types) >= 2
        /\ \E i \in 1..Len(ontology.relations) :
              ontology.relations[i].source = e /\ ontology.relations[i].target = e

\* the name the normalizer derives from one mention of the given kind
DerivedName(kind, mention) ==
  IF kind = "PERSON" THEN FirstAndLastToken(NormalizedForm(mention))
  ELSE GetLocationBaseForm(NormalizedForm(mention))

\* the mentions of the given kind that are in the bucket of mention number i
BucketOf(kind, i) ==
  {j \in 1..Len(mentions[kind]) :
     LowerStr(DerivedName(kind, mentions[kind][j]))
       = LowerStr(DerivedName(kind, mentions[kind][i]))}

RECURSIVE SumOfMentionCounts(_, _)
\* the sum of mentions_count over the entities of the list from number g on
SumOfMentionCounts(entity_list, g) ==
  IF g > Len(entity_list) THEN 0
  ELSE entity_list[g].mentions_count + SumOfMentionCounts(entity_list, g + 1)

MarkedReverse(relation) ==
  "is_reverse" \in DOMAIN relation /\ relation.is_reverse = TRUE

\* mirror has the endpoints and their kinds of original swapped and the
\* confidence and context of original
MirrorsShape(mirror, original) ==
  /\ mirror.source = original.target
  /\ mirror.target = original.source
  /\ mirror.source_type = original.target_type
  /\ mirror.target_type = original.source_type
  /\ mirror.confidence = original.confidence
  /\ mirror.context = original.context

\* C22: in the list extract_relations returns, the relations of strategies A
\* and B come first and none of them has is_reverse = true; every relation
\* after them has is_reverse = true and is, for some relation of strategies A
\* and B, that relation with source and target swapped, source_type and
\* target_type swapped and the same confidence and context.
C22_SynthesizedShape ==
  Returned =>
    /\ Len(relations) >= Len(candidates)
    /\ \A i \in 1..Len(candidates) :
         /\ relations[i] = candidates[i]
         /\ ~ MarkedReverse(relations[i])
    /\ \A i \in (Len(candidates) + 1)..Len(relations) :
         /\ MarkedReverse(relations[i])
         /\ \E j \in 1..Len(candidates) : MirrorsShape(relations[i], candidates[j])

\* C22 case: the mirror of a person - location relation has been appended
C22_Witness ==
  /\ pc = "extracted"
  /\ Len(relations) > Len(candidates)
  /\ relations[Len(relations)].is_reverse = TRUE
  /\ relations[Len(relations)].type = "HAS_RESIDENT"
  /\ relations[Len(relations)].source_type = "LOC"
  /\ relations[Len(relations)].target_type = "PERSON"

\* the targets of the relations the keyword method kept for a source name:
\* the keyword method is the only one that emits confidence 0.8
KeywordTargets(name) ==
  {candidates[i].target :
     i \in {j \in 1..Len(candidates) :
              /\ candidates[j].source = name
              /\ candidates[j].type = "RESIDENCE"
              /\ candidates[j].confidence = 80}}

\* C23: the keyword method links one person mention to at most one location:
\* for a name that one mention only carries, the relations of confidence 0.8
\* from that name go to one location.
C23_FirstLocationWins ==
  pc # "start" =>
    \A p \in 1..Len(EntityList(entities, "PERSON")) :
       LET persons == EntityList(entities, "PERSON")
       IN (\A q \in 1..Len(persons) :
              persons[q].normalized = persons[p].normalized => persons[q] = persons[p])
            => Cardinality(KeywordTargets(persons[p].normalized)) <= 1

\* the occurrences in the text of the name variants of a person
NamePositions(person) ==
  LET variants == << FirstName(person.normalized), person.normalized, person.text >>
  IN UNION {Range(FindAllPositions(text, variants[i])) :
              i \in {j \in 1..Len(variants) : variants[j] # << >>}}

InBounds(mention) ==
  /\ 0 <= mention.start
  /\ mention.start <= mention.end
  /\ mention.end <= Len(text)

\* the PERSON and LOC mentions of the mapping
RelationMentions ==
  Range(EntityList(entities, "PERSON")) \cup Range(EntityList(entities, "LOC"))

\* C25: a mention whose offsets do not lie within the text is skipped:
\* extract_relations returns without an exception and no returned relation
\* has the name of such a mention as an endpoint, unless a mention within the
\* text has the same name.
C25_OutOfBoundsSkipped ==
  LET mention_set == RelationMentions
      skipped == {m \in mention_set :
                    /\ ~ InBounds(m)
                    /\ \A n \in mention_set : InBounds(n) => n.normalized # m.normalized}
  IN pc # "start" =>
       \A m \in skipped :
          \A i \in 1..Len(relations) :
             relations[i].source # m.normalized /\ relations[i].target # m.normalized

RECURSIVE SumOfValues(_, _)
\* the sum of the values of a dict of counts over the given keys
SumOfValues(counts, keys) ==
  IF keys = {} THEN 0
  ELSE LET key == CHOOSE k \in keys : TRUE
       IN counts[key] + SumOfValues(counts, keys \ {key})

\* the kinds get_statistics reports a count for
CountedKinds == {"PERSON", "LOC", "ORG"}

\* C26: what get_statistics returned agrees with the ontology: total_entities
\* is the number of entities, total_relations the number of stored relations,
\* relation_types has exactly the types of the stored relations as keys and
\* its counts sum to total_relations, and the counts of PERSON, LOC and ORG
\* sum to total_entities less the entities of any other kind.
C26_StatisticsAgree ==
  statistics.returned =>
    /\ statistics.total_entities = Cardinality(DOMAIN ontology.entities)
    /\ statistics.total_relations = Len(ontology.relations)
    /\ DOMAIN statistics.relation_types
         = {ontology.relations[i].type : i \in 1..Len(ontology.relations)}
    /\ SumOfValues(statistics.relation_types, DOMAIN statistics.relation_types)
         = statistics.total_relations
    /\ DOMAIN statistics.entity_types = CountedKinds
    /\ SumOfValues(statistics.entity_types, CountedKinds)
         = statistics.total_entities
             - Cardinality({name \in DOMAIN ontology.entities :
                              ontology.entities[name].type \notin CountedKinds})

\* C26 case: statistics of an ontology with an entity of kind UNKNOWN and
\* stored relations of two types, one of them stored twice
C26_Witness ==
  /\ statistics.returned
  /\ \E name \in DOMAIN ontology.entities : ontology.entities[name].type = "UNKNOWN"
  /\ Cardinality(DOMAIN statistics.relation_types) = 2
  /\ statistics.total_relations = 3

\* C27: a build_ontology call removes no entity, changes the kind of none and
\* lowers neither the mention count nor the total_relations of any.
C27_EntitiesMonotone ==
  [][\A name \in DOMAIN ontology.entities :
        /\ name \in DOMAIN ontology'.entities
        /\ ontology'.entities[name].type = ontology.entities[name].type
        /\ ontology'.entities[name].mentions >= ontology.entities[name].mentions
        /\ ontology'.entities[name].total_relations
             >= ontology.entities[name].total_relations]_vars

\* C27 case: the second call reported Al as a location only, and Al is still
\* the person of the first call, with a mention more
C27_Witness ==
  /\ builds = 2
  /\ entities # << >>
  /\ entities.PERSON = << >>
  /\ entities.LOC = << Mention(Al, Al, 8) >>
  /\ Al \in DOMAIN ontology.entities
  /\ ontology.entities[Al].type = "PERSON"
  /\ ontology.entities[Al].mentions = 3

\* C29: a builder starts with no stored relation, and a build_ontology call
\* leaves the relations stored before it in place and appends one stored
\* relation for every input relation, in input order, with the source, target
\* and type of that input relation.
C29_AppendOnly ==
  [][/\ builds = 0 => ontology.relations = << >>
     /\ builds' = builds + 1 =>
          /\ Len(ontology'.relations) = Len(ontology.relations) + Len(relations')
          /\ \A i \in 1..Len(ontology.relations) :
                ontology'.relations[i] = ontology.relations[i]
          /\ \A i \in 1..Len(relations') :
                Triple(ontology'.relations[Len(ontology.relations) + i])
                  = Triple(relations'[i])]_vars

\* C29 case: the second call was given a relation the first call had stored,
\* and the builder stores it twice
C29_Witness ==
  /\ builds = 2
  /\ Len(relations) = 1
  /\ Len(ontology.relations) = 3
  /\ Triple(ontology.relations[3]) = Triple(relations[1])
  /\ Triple(ontology.relations[1]) = Triple(relations[1])

RECURSIVE SeparatorsKeptFrom(_, _, _, _, _)
\* the name from character i on, word by word: out is the part written so
\* far, cur the word being read, sep the separator read since the last word
\* (a hyphen if a hyphen was among the characters, a space otherwise)
SeparatorsKeptFrom(s, i, out, cur, sep) ==
  IF i > Len(s)
  THEN (IF cur = << >> THEN out ELSE out \o Capitalized(cur))
  ELSE IF IsSpace(s[i]) \/ s[i] = 45
  THEN SeparatorsKeptFrom(s, i + 1,
         IF cur = << >> THEN out ELSE out \o Capitalized(cur),
         << >>,
         IF s[i] = 45 \/ (cur = << >> /\ sep = << 45 >>) THEN << 45 >> ELSE << 32 >>)
  ELSE SeparatorsKeptFrom(s, i + 1,
         IF cur = << >> /\ out # << >> THEN out \o sep ELSE out,
         Append(cur, s[i]),
         sep)

\* the normalized components of a name in their order, every two of them
\* joined as they are joined in the name
SeparatorsKept(raw_name) == SeparatorsKeptFrom(Strip(raw_name), 1, << >>, << >>, << 32 >>)

\* C28: the base form of a location name is made of the normalized
\* components of the name in their order, joined by a hyphen where the name
\* joins them by a hyphen and by a space where the name separates them by a
\* space, also in a name that has both.
C28_SeparatorStyleKept ==
  Normalized =>
    \A g \in 1..Len(entities.LOC) :
       entities.LOC[g].normalized
         = SeparatorsKept(NormalizedForm(mentions.LOC[groups.LOC[g].members[1]]))

\* the normalized names of the mentions of the given kinds of the mapping
MappingNames(kinds) ==
  UNION {{EntityList(entities, kind)[i].normalized :
            i \in 1..Len(EntityList(entities, kind))} : kind \in kinds}

\* C30: every source and target of a relation extract_relations returns is
\* the normalized name of a PERSON or LOC mention of the mapping; after
\* build_ontology on a fresh builder with the same mapping and the returned
\* relations, every entity has a mention and there are as many entities as
\* distinct normalized names in the mapping.
C30_NoLazyEntityInPipeline ==
  /\ Returned =>
       LET names == MappingNames({"PERSON", "LOC"})
       IN \A i \in 1..Len(relations) :
             relations[i].source \in names /\ relations[i].target \in names
  /\ pc \in {"built", "reported", "rebuilt", "rereported"} =>
       /\ \A name \in DOMAIN ontology.entities : ontology.entities[name].mentions >= 1
       /\ Cardinality(DOMAIN ontology.entities)
            = Cardinality(MappingNames({"PERSON", "LOC", "ORG"}))

\* C30 case: the ontology built from a mapping whose location has a surface
\* form other than its name, and from relations between the person and it
C30_Witness ==
  /\ pc = "built"
  /\ Len(relations) = 2
  /\ relations[1].target = Ufa
  /\ relations[2].source = Ufa
  /\ EntityList(entities, "LOC") = << Mention(Ufu, Ufa, 0) >>
  /\ DOMAIN ontology.entities = {Al, Ufa, Acme}

====
